---------------------------- MODULE Spec2Model ----------------------------
(***************************************************************************)
(* Model of the pngme chunk codec: src/src/chunk_type.rs (ChunkType) and   *)
(* src/src/chunk.rs (Chunk).                                               *)
(*                                                                         *)
(* Bytes are naturals 0..255.  A u32 is the record of its four bytes by    *)
(* weight, so that the full 32-bit width is kept.  A &str is a sequence of *)
(* Unicode code points; as_bytes is its UTF-8 encoding.  The target is     *)
(* little-endian: transmute between u32 and [u8; 4] puts the byte of       *)
(* lowest weight first.                                                    *)
(***************************************************************************)
EXTENDS Integers, Sequences, FiniteSets

VARIABLES wire, sent, tampered, cursor, nread, text, result, flags

vars == <<wire, sent, tampered, cursor, nread, text, result, flags>>

(***************************************************************************)
(* Bounds of the model.                                                    *)
(***************************************************************************)
MaxChunks == 2
MaxTextLen == 5

(***************************************************************************)
(* u32 values: the record of the four bytes, b0 of weight 1, b1 of weight  *)
(* 256, b2 of weight 256^2, b3 of weight 256^3.                            *)
(***************************************************************************)
Bit(n, i) == (n \div (2 ^ i)) % 2

U32(b3, b2, b1, b0) == [b0 |-> b0, b1 |-> b1, b2 |-> b2, b3 |-> b3]

U32OfNat(n) ==
    U32((n \div 16777216) % 256, (n \div 65536) % 256, (n \div 256) % 256, n % 256)

\* transmute::<u32, [u8; 4]>: the bytes of u in memory order, lowest first
TransmuteToBytes(u) == <<u.b0, u.b1, u.b2, u.b3>>

\* transmute::<[u8; 4], u32>: the u32 whose memory image is b
TransmuteToU32(b) == U32(b[4], b[3], b[2], b[1])

\* u32::to_be on a little-endian target: the byte swap
to_be(u) == U32(u.b0, u.b1, u.b2, u.b3)

\* mutant of from_be_bytes: the bytes taken lowest first
from_le_bytes(b) == U32(b[4], b[3], b[2], b[1])

\* u32::from_be_bytes
from_be_bytes(b) == U32(b[1], b[2], b[3], b[4])

\* the value of u, for u below 2^31
U32Val(u) == u.b0 + 256 * (u.b1 + 256 * (u.b2 + 256 * u.b3))

\* `u as usize <= k` for a natural k below 2^31: whether read_exact can fill
\* a vector of u bytes from k remaining ones (the allocation of the vector
\* is taken to succeed)
FitsIn(u, k) == u.b3 < 128 /\ U32Val(u) <= k

(***************************************************************************)
(* CRC-32/ISO-HDLC as Crc::<u32>::new(&CRC_32_ISO_HDLC).checksum computes  *)
(* it: reflected polynomial 0xEDB88320, initial value and final xor        *)
(* 0xFFFFFFFF, one table lookup per byte.                                  *)
(***************************************************************************)
NibXor == [a \in 0..15 |-> [b \in 0..15 |->
             ((Bit(a, 0) + Bit(b, 0)) % 2) + 2 * ((Bit(a, 1) + Bit(b, 1)) % 2)
             + 4 * ((Bit(a, 2) + Bit(b, 2)) % 2) + 8 * ((Bit(a, 3) + Bit(b, 3)) % 2)]]

XorByte(a, b) == 16 * NibXor[a \div 16][b \div 16] + NibXor[a % 16][b % 16]

Xor(x, y) ==
    U32(XorByte(x.b3, y.b3), XorByte(x.b2, y.b2),
        XorByte(x.b1, y.b1), XorByte(x.b0, y.b0))

Shr1(u) ==
    U32(u.b3 \div 2,
        (u.b2 \div 2) + 128 * (u.b3 % 2),
        (u.b1 \div 2) + 128 * (u.b2 % 2),
        (u.b0 \div 2) + 128 * (u.b1 % 2))

Shr8(u) == U32(0, u.b3, u.b2, u.b1)

\* 0xEDB88320
CrcPoly == U32(237, 184, 131, 32)

\* 0xFFFFFFFF
CrcInit == U32(255, 255, 255, 255)

RECURSIVE CrcRounds(_, _)
CrcRounds(c, n) ==
    IF n = 0 THEN c
    ELSE CrcRounds(IF c.b0 % 2 = 1 THEN Xor(Shr1(c), CrcPoly) ELSE Shr1(c), n - 1)

CrcTable == [n \in 0..255 |-> CrcRounds(U32OfNat(n), 8)]

CrcUpdate(c, byte) == Xor(CrcTable[XorByte(c.b0, byte)], Shr8(c))

RECURSIVE CrcFold(_, _, _)
CrcFold(c, data, i) ==
    \* the register is evaluated at every byte, not as one nested expression
    IF c.b0 \in 0..255 /\ i <= Len(data)
    THEN CrcFold(CrcUpdate(c, data[i]), data, i + 1)
    ELSE c

checksum(data) == Xor(CrcFold(CrcInit, data, 1), CrcInit)

(***************************************************************************)
(* Outcomes of a call: a value, an error value, or a panic (unwinding).    *)
(***************************************************************************)
Ok(v) == [status |-> "Ok", err |-> "", value |-> <<v>>]

Err(e) == [status |-> "Err", err |-> e, value |-> <<>>]

Panic(e) == [status |-> "Panic", err |-> e, value |-> <<>>]

\* the last call: the operation, the reader's position when it was called,
\* and its outcome
NoResult ==
    [op |-> "none", at |-> 0, status |-> "None", err |-> "", value |-> <<>>]

Called(op, at, r) ==
    [op |-> op, at |-> at, status |-> r.status, err |-> r.err, value |-> r.value]

(***************************************************************************)
(* chunk_type.rs                                                           *)
(***************************************************************************)
\* the test applied to each byte by both constructors of ChunkType
NotLetter(i) == i < 65 \/ i > 122 \/ (i > 90 /\ i < 97)

ChunkType(b0, b1, b2, b3) ==
    [ancillary_byte |-> b0, private_byte |-> b1,
     reserved_byte |-> b2, safe_to_copy_byte |-> b3]

\* impl TryFrom<[u8; 4]> for ChunkType
ChunkType_try_from(value) ==
    IF \E k \in 1..4 : NotLetter(value[k])
    THEN Err("Error! The value array cannot be parsed as letters.")
    ELSE Ok(ChunkType(value[1], value[2], value[3], value[4]))

\* the UTF-8 encoding of one code point (below 0x10000)
Utf8(c) ==
    IF c < 128 THEN <<c>>
    ELSE IF c < 2048 THEN <<192 + (c \div 64), 128 + (c % 64)>>
    ELSE <<224 + (c \div 4096), 128 + ((c \div 64) % 64), 128 + (c % 64)>>

RECURSIVE str_as_bytes(_)
str_as_bytes(s) ==
    IF s = <<>> THEN <<>> ELSE Utf8(Head(s)) \o str_as_bytes(Tail(s))

\* impl FromStr for ChunkType: every byte is tested, then s[0..3] are indexed
from_str(str) ==
    LET s == str_as_bytes(str) IN
    IF \E k \in 1..Len(s) : NotLetter(s[k])
    THEN Err("Error! The str cannot be parsed as letters.")
    ELSE IF Len(s) < 4
    THEN Panic("index out of bounds")
    ELSE Ok(ChunkType(s[1], s[2], s[3], s[4]))

bytes(t) ==
    <<t.ancillary_byte, t.private_byte, t.reserved_byte, t.safe_to_copy_byte>>

\* `byte & 32`
And32(byte) == 32 * Bit(byte, 5)

is_critical(t) == And32(t.ancillary_byte) = 0

is_public(t) == And32(t.private_byte) = 0

\* mutant of is_reserved_bit_valid: the wrong bit is tested
is_reserved_bit_valid_bit6(t) == 64 * Bit(t.reserved_byte, 6) = 0

is_reserved_bit_valid(t) == And32(t.reserved_byte) = 0

is_safe_to_copy(t) == And32(t.safe_to_copy_byte) # 0

is_valid(t) == IF ~is_reserved_bit_valid(t) THEN FALSE ELSE TRUE

(***************************************************************************)
(* chunk.rs                                                                *)
(***************************************************************************)
Chunk(length, chunk_type, chunk_data, crc) ==
    [length |-> length, chunk_type |-> chunk_type,
     chunk_data |-> chunk_data, crc |-> crc]

\* Chunk::new
new(chunk_type, data) ==
    Chunk(U32OfNat(Len(data)), chunk_type, data,
          checksum(bytes(chunk_type) \o data))

\* mutant of as_bytes: the checksum written without the swap to big-endian
as_bytes_native_crc(c) ==
    TransmuteToBytes(to_be(c.length)) \o bytes(c.chunk_type)
        \o c.chunk_data \o TransmuteToBytes(c.crc)

\* Chunk::as_bytes
as_bytes(c) ==
    TransmuteToBytes(to_be(c.length)) \o bytes(c.chunk_type)
        \o c.chunk_data \o TransmuteToBytes(to_be(c.crc))

\* Chunk::crc_checksum
crc_checksum(chunk_type, data) == checksum(bytes(chunk_type) \o data)

\* the test of try_from: the CRC of the bytes kept against the stored one
crc_differs(rest, crc) == checksum(rest) # to_be(TransmuteToU32(crc))

\* impl TryFrom<&[u8]> for Chunk.  The length field value[0..=3] is copied
\* and never used; the checksum is taken from the last 4 bytes and the
\* checksummed bytes are all those between offset 4 and the last 4.
Chunk_try_from(value) ==
    IF Len(value) < 4 THEN Panic("range end index 4 out of range for slice")
    ELSE IF Len(value) < 8 THEN Panic("range end index 8 out of range for slice")
    ELSE
      LET crc  == SubSeq(value, Len(value) - 3, Len(value))
          rest == SubSeq(value, 5, Len(value) - 4)
          ct   == ChunkType_try_from(SubSeq(value, 5, 8))
      IN
      IF ct.status # "Ok"
      THEN Panic("unwrap on an Err value")
      ELSE IF crc_differs(rest, crc)
      THEN Err("crc error.")
      ELSE IF Len(rest) < 4
      THEN Panic("removal index out of bounds")
      ELSE
        LET data == SubSeq(rest, 5, Len(rest)) IN
        Ok(Chunk(U32OfNat(Len(data)), ct.value[1], data,
                 to_be(TransmuteToU32(crc))))

\* Chunk::read_chunk on a reader over `buf` positioned at `pos`: the outcome
\* and the position afterwards.  A read_exact that meets the end of the
\* input fails with UnexpectedEof and leaves the reader at the end.
Eof(buf) == [res |-> Err("failed to fill whole buffer"), pos |-> Len(buf)]

read_chunk(buf, pos) ==
    IF Len(buf) - pos < 4 THEN Eof(buf)
    ELSE
      LET length == from_be_bytes(SubSeq(buf, pos + 1, pos + 4)) IN
      IF Len(buf) - pos < 8 THEN Eof(buf)
      ELSE
        LET ct == ChunkType_try_from(SubSeq(buf, pos + 5, pos + 8)) IN
        IF ct.status # "Ok" THEN [res |-> Err(ct.err), pos |-> pos + 8]
        ELSE IF ~FitsIn(length, Len(buf) - (pos + 8)) THEN Eof(buf)
        ELSE
          LET n          == U32Val(length)
              chunk_data == SubSeq(buf, pos + 9, pos + 8 + n)
          IN
          IF Len(buf) - (pos + 8 + n) < 4 THEN Eof(buf)
          ELSE
            LET crc == from_be_bytes(SubSeq(buf, pos + 9 + n, pos + 12 + n)) IN
            IF crc # crc_checksum(ct.value[1], chunk_data)
            THEN [res |-> Err("invalid chunk"), pos |-> pos + 12 + n]
            ELSE [res |-> Ok(Chunk(length, ct.value[1], chunk_data, crc)),
                  pos |-> pos + 12 + n]

(***************************************************************************)
(* Inputs.                                                                 *)
(***************************************************************************)
\* "RuSt", "azAZ"
TagTexts == {<<82, 117, 83, 116>>, <<97, 122, 65, 90>>}

ChunkTypes == {from_str(t).value[1] : t \in TagTexts}

Payloads == {<<>>, <<255, 1>>}

\* '1', 'A', 'Z', '`', 'a', 'z', e-acute (two bytes in UTF-8)
CharSample == {49, 65, 90, 96, 97, 122, 233}

Texts == UNION {[1..n -> CharSample] : n \in 0..MaxTextLen}

\* the bytes around the two letter ranges
ByteSample == {64, 65, 90, 91, 96, 97, 122, 123}

Arrays == [1..4 -> ByteSample]

NoTamper == [kind |-> "none", at |-> 0]

(***************************************************************************)
(* The codec: a byte buffer is assembled from serialized chunks, possibly  *)
(* damaged once, then parsed as a whole (try_from) and read as a stream    *)
(* (read_chunk on one reader, whose position is `cursor`).                 *)
(***************************************************************************)
Init ==
    /\ wire = <<>>
    /\ sent = <<>>
    /\ tampered = NoTamper
    /\ cursor = 0
    /\ nread = 0
    /\ text = <<>>
    /\ result = NoResult
    /\ flags = <<>>

Untouched == result = NoResult /\ cursor = 0

\* Chunk::new followed by Chunk::as_bytes, appended to the buffer
Build(t, p) ==
    /\ Untouched
    /\ tampered = NoTamper
    /\ Len(sent) < MaxChunks
    /\ sent' = Append(sent, new(t, p))
    /\ wire' = wire \o as_bytes(new(t, p))
    /\ UNCHANGED <<tampered, cursor, nread, text, result, flags>>

\* one bit of one byte of the buffer is inverted
FlipBit(i, k) ==
    /\ Untouched
    /\ tampered = NoTamper
    /\ i \in 1..Len(wire)
    /\ wire' = [wire EXCEPT ![i] =
                  IF Bit(@, k) = 1 THEN @ - 2 ^ k ELSE @ + 2 ^ k]
    /\ tampered' = [kind |-> "flip", at |-> i]
    /\ UNCHANGED <<sent, cursor, nread, text, result, flags>>

\* the last n bytes of the buffer are dropped
Truncate(n) ==
    /\ Untouched
    /\ tampered = NoTamper
    /\ n \in 1..Len(wire)
    /\ wire' = SubSeq(wire, 1, Len(wire) - n)
    /\ tampered' = [kind |-> "truncate", at |-> n]
    /\ UNCHANGED <<sent, cursor, nread, text, result, flags>>

\* one more byte follows the last chunk
Extend(b) ==
    /\ Untouched
    /\ tampered = NoTamper
    /\ sent # <<>>
    /\ wire' = Append(wire, b)
    /\ tampered' = [kind |-> "extend", at |-> Len(wire) + 1]
    /\ UNCHANGED <<sent, cursor, nread, text, result, flags>>

\* Chunk::try_from(&wire[..])
TryFrom ==
    /\ cursor = 0
    /\ result' = Called("try_from", 0, Chunk_try_from(wire))
    /\ UNCHANGED <<wire, sent, tampered, cursor, nread, text, flags>>

\* Chunk::read_chunk(&mut reader)
ReadChunk ==
    LET r == read_chunk(wire, cursor) IN
    /\ result' = Called("read_chunk", cursor, r.res)
    /\ cursor' = r.pos
    /\ nread' = IF r.res.status = "Ok" THEN nread + 1 ELSE nread
    /\ UNCHANGED <<wire, sent, tampered, text, flags>>

Next ==
    \/ \E t \in ChunkTypes, p \in Payloads : Build(t, p)
    \/ \E i \in 1..Len(wire), k \in 0..7 : FlipBit(i, k)
    \/ \E n \in 1..Len(wire) : Truncate(n)
    \/ \E b \in {0, 255} : Extend(b)
    \/ TryFrom
    \/ ReadChunk

Spec == Init /\ [][Next]_vars

(***************************************************************************)
(* The type tag alone: an input (a &str or a [u8; 4]) is given, one of the *)
(* two constructors is applied to it, and the flags of the tag are read.   *)
(***************************************************************************)
InitType ==
    /\ \/ text \in Texts /\ wire = <<>>
       \/ text = <<>> /\ wire \in Arrays
    /\ sent = <<>>
    /\ tampered = NoTamper
    /\ cursor = 0
    /\ nread = 0
    /\ result = NoResult
    /\ flags = <<>>

\* ChunkType::from_str(text)
FromStr ==
    /\ result = NoResult
    /\ wire = <<>>
    /\ result' = Called("from_str", 0, from_str(text))
    /\ UNCHANGED <<wire, sent, tampered, cursor, nread, text, flags>>

\* ChunkType::try_from(wire) for a 4-byte array
TryFromArray ==
    /\ result = NoResult
    /\ Len(wire) = 4
    /\ result' = Called("type_try_from", 0, ChunkType_try_from(wire))
    /\ UNCHANGED <<wire, sent, tampered, cursor, nread, text, flags>>

\* the five predicates of a constructed ChunkType
ReadFlags ==
    /\ result.status = "Ok"
    /\ flags = <<>>
    /\ LET t == result.value[1] IN
       flags' = <<[is_valid              |-> is_valid(t),
                   is_critical           |-> is_critical(t),
                   is_public             |-> is_public(t),
                   is_reserved_bit_valid |-> is_reserved_bit_valid(t),
                   is_safe_to_copy       |-> is_safe_to_copy(t)]>>
    /\ UNCHANGED <<wire, sent, tampered, cursor, nread, text, result>>

NextType == FromStr \/ TryFromArray \/ ReadFlags

SpecType == InitType /\ [][NextType]_vars

(***************************************************************************)
(* Vocabulary of the properties.                                           *)
(***************************************************************************)
Letter(b) == b \in 65..90 \/ b \in 97..122

\* the 4 bytes of a big-endian length field holding n
BeBytes(n) ==
    <<(n \div 16777216) % 256, (n \div 65536) % 256, (n \div 256) % 256, n % 256>>

\* the length field of the record starting at offset `at` of buf declares n
Declares(buf, at, n) ==
    Len(buf) >= at + 4 /\ SubSeq(buf, at + 1, at + 4) = BeBytes(n)

\* the 4 type bytes of the record at `at` are present and all letters
LegalTag(buf, at) ==
    Len(buf) >= at + 8 /\ \A k \in 1..4 : Letter(buf[at + 4 + k])

\* the checksum stored after n payload bytes is the CRC of type and payload
StoredCrcOk(buf, at, n) ==
    LET c == checksum(SubSeq(buf, at + 5, at + 8 + n)) IN
    SubSeq(buf, at + 9 + n, at + 12 + n) = <<c.b3, c.b2, c.b1, c.b0>>

\* buf holds, from `at`, one complete valid record of n payload bytes
ValidRecordAt(buf, at, n) ==
    /\ Declares(buf, at, n)
    /\ Len(buf) >= at + 12 + n
    /\ LegalTag(buf, at)
    /\ StoredCrcOk(buf, at, n)

\* buf has fewer than 12 bytes, or fewer than 12 + its declared length
Truncated(buf) ==
    Len(buf) < 12 \/ \A n \in 0..(Len(buf) - 12) : ~Declares(buf, 0, n)

\* the error kind of the specification that an outcome stands for
Kind(r) ==
    IF r.status # "Err" THEN r.status
    ELSE IF r.err \in {"crc error.", "invalid chunk"} THEN "ChecksumMismatch"
    ELSE IF r.err \in {"Error! The value array cannot be parsed as letters.",
                       "Error! The str cannot be parsed as letters."}
         THEN "InvalidTag"
    ELSE IF r.err = "failed to fill whole buffer" THEN "TruncatedInput"
    ELSE "Other"

\* the fields of a record against its own payload and type
WellFormed(c) ==
    /\ c.length.b3 < 128 /\ U32Val(c.length) = Len(c.chunk_data)
    /\ c.crc = checksum(bytes(c.chunk_type) \o c.chunk_data)
    /\ \A k \in 1..4 : Letter(bytes(c.chunk_type)[k])

\* the offset just after the first k chunks built
RECURSIVE Offset(_)
Offset(k) == IF k = 0 THEN 0 ELSE Offset(k - 1) + 12 + Len(sent[k].chunk_data)

(***************************************************************************)
(* Properties.                                                             *)
(***************************************************************************)
\* C1: parsing the serialization of new(t, p) as a whole buffer succeeds and
\* yields a record equal to new(t, p) in length, type, payload and checksum.
C1_RoundTrip ==
    (tampered = NoTamper /\ Len(sent) = 1 /\ result.op = "try_from") =>
        /\ result.status = "Ok"
        /\ result.value[1].length = sent[1].length
        /\ result.value[1].chunk_type = sent[1].chunk_type
        /\ result.value[1].chunk_data = sent[1].chunk_data
        /\ result.value[1].crc = sent[1].crc

\* C1 happens: the serialization of a chunk with a 2-byte payload is parsed
C1_Witness ==
    /\ tampered = NoTamper /\ Len(sent) = 1 /\ result.op = "try_from"
    /\ result.status = "Ok" /\ result.value[1].chunk_data = <<255, 1>>

\* C2: an input with a legal type tag whose stored checksum differs from the
\* CRC-32 of type and payload is rejected with the checksum error, and no
\* record is produced, by the whole-buffer parse and by the stream read.
C2_ChecksumRejection ==
    /\ (/\ result.op = "try_from"
        /\ \E n \in 0..Len(wire) :
              /\ Len(wire) >= 12 + n /\ Declares(wire, 0, n)
              /\ LegalTag(wire, 0) /\ ~StoredCrcOk(wire, 0, n))
         => (Kind(result) = "ChecksumMismatch" /\ result.value = <<>>)
    /\ (/\ result.op = "read_chunk"
        /\ \E n \in 0..Len(wire) :
              /\ Len(wire) >= result.at + 12 + n /\ Declares(wire, result.at, n)
              /\ LegalTag(wire, result.at) /\ ~StoredCrcOk(wire, result.at, n))
         => (Kind(result) = "ChecksumMismatch" /\ result.value = <<>>)
    /\ \A i \in 1..Len(sent) :
          sent[i].crc = checksum(bytes(sent[i].chunk_type) \o sent[i].chunk_data)

\* C3: a buffer of fewer than 12 bytes, or of fewer than 12 + its declared
\* length, makes the whole-buffer parse return the TruncatedInput error.
C3_TruncationRejected ==
    (result.op = "try_from" /\ Truncated(wire)) => Kind(result) = "TruncatedInput"

\* C4: a buffer that begins with one complete valid record and goes on for
\* at least one more byte makes the whole-buffer parse fail with
\* TrailingBytes.
C4_TrailingRejected ==
    (/\ result.op = "try_from"
     /\ \E n \in 0..Len(wire) :
           ValidRecordAt(wire, 0, n) /\ Len(wire) > 12 + n)
      => Kind(result) = "TrailingBytes"

\* C5: an input whose 4 type bytes include a byte that is not a letter makes
\* the whole-buffer parse and the stream read return the InvalidTag error as
\* a value.
C5_InvalidTagIsError ==
    (\/ result.op = "try_from" /\ Len(wire) >= 8 /\ ~LegalTag(wire, 0)
     \/ /\ result.op = "read_chunk" /\ Len(wire) >= result.at + 8
        /\ ~LegalTag(wire, result.at))
      => Kind(result) = "InvalidTag"

\* C6: from_str succeeds exactly on the strings of 4 bytes that are all
\* letters, and returns an error value on every other string.
C6_FromStrLegality ==
    result.op = "from_str" =>
        LET b == str_as_bytes(text) IN
        /\ result.status = "Ok" <=> (Len(b) = 4 /\ \A k \in 1..Len(b) : Letter(b[k]))
        /\ result.status # "Ok" => result.status = "Err"

\* C7: on a stream over the serializations of r1..rn, the i-th read_chunk
\* succeeds, returns ri, and moves the reader from the end of r(i-1) by
\* 12 + length(ri) bytes; a read fails only once all n have been read, with
\* the reader at the end of the stream.
C7_SequentialReads ==
    (tampered = NoTamper /\ result.op = "read_chunk") =>
        IF result.status = "Ok"
        THEN /\ nread \in 1..Len(sent)
             /\ result.value[1] = sent[nread]
             /\ result.at = Offset(nread - 1)
             /\ cursor = result.at + 12 + Len(sent[nread].chunk_data)
        ELSE /\ result.status = "Err"
             /\ nread = Len(sent)
             /\ result.at = Len(wire)
             /\ cursor = Len(wire)

\* C7 happens: two chunks are read from the stream and the third read fails
C7_Witness ==
    /\ tampered = NoTamper /\ result.op = "read_chunk"
    /\ Len(sent) = 2 /\ nread = 2 /\ result.status = "Err"
    /\ sent[1].chunk_data = <<255, 1>>

\* C8: inverting one bit of the type or payload bytes of a valid serialized
\* record makes the whole-buffer parse fail with the checksum error.
C8_BitFlipDetected ==
    (/\ result.op = "try_from"
     /\ Len(sent) = 1
     /\ tampered.kind = "flip"
     /\ tampered.at \in 5..(Len(wire) - 4))
      => Kind(result) = "ChecksumMismatch"

\* C9: is_critical, is_public and is_reserved_bit_valid hold exactly when
\* bit 0x20 of byte 0, 1, 2 is clear, is_safe_to_copy exactly when bit 0x20
\* of byte 3 is set, and is_valid equals is_reserved_bit_valid: a lower-case
\* third byte gives is_valid false, an upper-case one is_valid true.
C9_FlagSemantics ==
    flags # <<>> =>
        LET t == result.value[1]
            f == flags[1]
        IN
        /\ f.is_critical <=> (t.ancillary_byte % 64 < 32)
        /\ f.is_public <=> (t.private_byte % 64 < 32)
        /\ f.is_reserved_bit_valid <=> (t.reserved_byte % 64 < 32)
        /\ f.is_safe_to_copy <=> (t.safe_to_copy_byte % 64 >= 32)
        /\ f.is_valid <=> f.is_reserved_bit_valid
        /\ t.reserved_byte \in 97..122 => ~f.is_valid
        /\ t.reserved_byte \in 65..90 => f.is_valid

\* C9 happens: a tag with a lower-case third byte is built from a string
\* and reports is_valid false
C9_Witness ==
    /\ flags # <<>>
    /\ result.op = "from_str"
    /\ result.value[1].reserved_byte = 97
    /\ ~flags[1].is_valid

\* C10: every record returned by new, try_from or read_chunk has length equal
\* to its number of payload bytes, crc equal to the CRC-32 of type and
\* payload, and a type of letters; a parsed record's length is the length
\* declared in the first 4 bytes of its input.
C10_RecordInvariant ==
    /\ \A i \in 1..Len(sent) : WellFormed(sent[i])
    /\ (result.status = "Ok" /\ result.op \in {"try_from", "read_chunk"}) =>
          /\ WellFormed(result.value[1])
          /\ Declares(wire, result.at, Len(result.value[1].chunk_data))

=============================================================================
